---- MODULE Spec2Model ----
(***************************************************************************)
(* A model of scripts/cloudify_deploy.py: the Cloudify deploy runner.      *)
(*                                                                         *)
(* One run of the script is a single sequential process.  The pipeline of  *)
(* main() is modelled one HTTP attempt per step: every step is one         *)
(* iteration of the retry loop of _request(), followed by everything the   *)
(* calling stage and main() do with the value _request() hands back        *)
(* (raise, exit, or go on to the next stage's first attempt).  The server  *)
(* and the network are the environment: each attempt's outcome (a response *)
(* with a status and a body, or a transport exception) and the time the    *)
(* attempt takes are chosen nondeterministically.                          *)
(*                                                                         *)
(* Specifications:                                                         *)
(*   Spec           a run of main() (retries and backoff at the defaults)  *)
(*   SpecTransport  one call of _request() with any retry limit/backoff    *)
(*   SpecWait       one call of wait_execution(), with fair polling        *)
(*   SpecConcurrent two runs of main() sharing /tmp                        *)
(*   SpecMerge      main()'s merge of the input files                      *)
(***************************************************************************)
EXTENDS Integers, Sequences, FiniteSets, TLC

VARIABLES
    pc,                 \* where the run is: "main", a stage name, "request", "returned", "exit"
    exit_code,          \* the process exit status; NoExit while running
    error,              \* the error that ended the run (NoError while running / on success)
    archive,            \* whether /tmp/<blueprint_id>.zip exists
    token,              \* main: token returned by login_get_token
    exec_id,            \* main: id returned by start_execution
    invoked,            \* the stage functions main has called, in call order
    existed,            \* main: what deployment_exists returned ("none" before)
    create_if_missing,  \* args.create_if_missing
    wait,               \* args.wait
    retries,            \* _request: parameter retries
    backoff_sec,        \* _request: parameter backoff_sec
    attempt,            \* _request: loop variable of the call in progress
    last_exc,           \* _request: last_exc
    sleeps,             \* _request: the time.sleep() durations of the call in progress
    now,                \* time.time(), counted from the entry of wait_execution
    exec_timeout_sec,   \* cfg.exec_timeout_sec
    poll_interval_sec,  \* cfg.poll_interval_sec
    deadline,           \* wait_execution: deadline
    polls,              \* wait_execution: number of _request calls it has made
    wait_sleeps,        \* wait_execution: number of time.sleep(poll_interval_sec) it has made
    st,                 \* wait_execution: st of the latest classified poll
    resp,               \* what _request handed to its caller in the step just taken
    fpos,               \* upload_blueprint_zip: read position of the open archive file
                        \* f (NoHandle: no file open)
    sent,               \* the requests made so far: stage and Authentication-Token
                        \* header (None: no such header) of every attempt
    trace,              \* SpecTransport: outcome of every attempt of the call
    ret,                \* SpecTransport: how the call of _request ended
    runs,               \* SpecConcurrent: each run's position in main, its blueprint_id
                        \* and whose archive it uploaded
    files,              \* SpecConcurrent: for each path under /tmp, the run whose
                        \* archive is stored there ("none": no such file)
    inputs_file,        \* SpecMerge: the mappings loaded from args.inputs_file, in order
    loaded,             \* SpecMerge: how many of them main's loop has merged
    merged_inputs,      \* SpecMerge: main's merged_inputs
    merge_args          \* SpecMerge: the arguments of the latest call of merge_dicts,
                        \* as passed and as they are after the call

vars == <<pc, exit_code, error, archive, token, exec_id, invoked, existed, create_if_missing,
          wait, retries, backoff_sec, attempt, last_exc, sleeps, now,
          exec_timeout_sec, poll_interval_sec, deadline, polls, wait_sleeps, st,
          resp, fpos, sent, trace, ret, runs, files, inputs_file, loaded, merged_inputs,
          merge_args>>

----------------------------------------------------------------------------
(* Bounds of the model. *)

\* largest retry limit tried for a direct call of _request
MaxRetries == 3
\* largest backoff base tried for a direct call of _request
MaxBackoff == 2
\* longest time one HTTP attempt takes (seconds)
MaxReqDur == 1
\* largest cfg.exec_timeout_sec tried
MaxExecTimeout == 3
\* largest cfg.poll_interval_sec tried
MaxPollInterval == 2

(* Program constants. *)

\* _request(..., retries: int = 5, ...)
DefaultRetries == 5
\* _request(..., backoff_sec: float = 1.0)
DefaultBackoff == 1
\* sys.exit codes: die(msg, code=1); die("Interrupted", code=130); normal return
ExitOk == 0
ExitError == 1
ExitInterrupt == 130
\* no exit code yet: the process is running
NoExit == -1

----------------------------------------------------------------------------
(* The environment: what one HTTP attempt can come back with. *)

\* HTTP status codes the server may answer with: one or two of each class
Statuses == {100, 200, 204, 302, 401, 404, 503}

\* Python's None
None == "<None>"

\* response bodies (resp.text)
BodyEmpty == ""
BodyHtml == "<html>"
BodyList == "[1]"
BodyObject == "{}"
BodyToken == "{\"value\":\"tok1\"}"
BodyTokenEmpty == "{\"value\":\"\"}"
BodyId == "{\"id\":\"e1\"}"
BodyIdEmpty == "{\"id\":\"\"}"
BodyPending == "{\"status\":\"pending\"}"
BodyTerminated == "{\"status\":\"terminated\"}"
BodyFailed == "{\"status\":\"failed\"}"
BodyCancelled == "{\"status\":\"cancelled\"}"

Bodies == {BodyEmpty, BodyHtml, BodyList, BodyObject, BodyToken, BodyTokenEmpty,
           BodyId, BodyIdEmpty, BodyPending, BodyTerminated, BodyFailed,
           BodyCancelled}

\* exceptions requests.request can raise that _request catches
Exceptions == {"Timeout", "ConnectionError"}

\* one attempt's outcome: a response, or an exception of the requests library
Outcomes ==
    [kind : {"response"}, status : Statuses, text : Bodies, exc : {None}]
    \cup [kind : {"exception"}, status : {0}, text : {""}, exc : Exceptions]

\* the time one attempt takes
Durations == 0..MaxReqDur

----------------------------------------------------------------------------
(* Response decoding: lines 155-161 of _request. *)

\* a dict with no keys
EmptyDict == [k \in {} |-> ""]

\* resp.json() of the bodies the model's server sends that parse as JSON objects
json(text) ==
    CASE text = BodyToken -> [value |-> "tok1"]
      [] text = BodyTokenEmpty -> [value |-> ""]
      [] text = BodyId -> [id |-> "e1"]
      [] text = BodyIdEmpty -> [id |-> ""]
      [] text = BodyPending -> [status |-> "pending"]
      [] text = BodyTerminated -> [status |-> "terminated"]
      [] text = BodyFailed -> [status |-> "failed"]
      [] text = BodyCancelled -> [status |-> "cancelled"]
      [] OTHER -> EmptyDict

\* whether the third value _request returns for this body is a dict: an empty
\* body is not parsed, a body that is not JSON raises ValueError (both give {}),
\* a JSON object gives a dict, and any other JSON value is returned as it is
is_dict(text) == text # BodyList

\* the third value _request returns, when it is a dict
parsed(text) ==
    IF text = BodyEmpty \/ text = BodyHtml THEN EmptyDict ELSE json(text)

\* dict.get(key, default)
get(data, key, default) == IF key \in DOMAIN data THEN data[key] ELSE default

\* Python truthiness of a value got from a dict: None and "" are falsy
falsy(v) == v = None \/ v = ""

----------------------------------------------------------------------------
(* Errors. *)

Err(kind, status, text, last_st) ==
    [kind |-> kind, status |-> status, text |-> text, st |-> last_st]

NoError == Err("none", 0, "", "")

\* the value of resp when the step just taken handed no response to a stage
NoResp == [stage |-> "none", status |-> 0, text |-> ""]

\* the value of ret while the call of _request is in progress
NoRet == [kind |-> "none", status |-> 0, text |-> "", exc |-> None]

----------------------------------------------------------------------------
(* Transport: _request, lines 113-175. *)

\* a backoff that does not grow with the attempt number
backoff_constant(base, att) == base

\* time.sleep(backoff_sec * attempt), lines 165 and 173
backoff(base, att) == base * att

\* a retry loop that treats a 5xx answer to the last attempt like an exception
request_raise_on_last_5xx(att, R, o) ==
    IF att > R THEN "raise"
    ELSE IF o.kind = "response" /\ o.status < 500 THEN "return"
    ELSE IF att >= R THEN "raise" ELSE "retry"

\* a retry loop that retries every error status, 4xx included
request_retry_on_4xx(att, R, o) ==
    IF att > R THEN "raise"
    ELSE IF o.kind = "response"
         THEN IF o.status >= 400 /\ att < R THEN "retry" ELSE "return"
         ELSE IF att >= R THEN "raise" ELSE "retry"

\* One iteration of the loop `for attempt in range(1, retries + 1)` given the
\* attempt's outcome: "retry" (sleep, next attempt), "return" (hand the
\* response to the caller) or "raise" (CloudifyAPIError after the loop).
\* With att > R the loop body does not run at all.
request(att, R, o) ==
    IF att > R THEN "raise"
    ELSE IF o.kind = "response"
         THEN IF o.status >= 500 /\ att < R THEN "retry" ELSE "return"
         ELSE IF att >= R THEN "raise" ELSE "retry"

\* last_exc after an attempt with outcome o, line 169
exc_after(o) == IF o.kind = "exception" THEN o.exc ELSE last_exc

\* "Request failed after retries: {method} {url}: {last_exc}", line 175
TransportError(exc) == Err("Transport", 0, exc, "")

\* dt seconds pass.  time.time() is read only by wait_execution (lines 307
\* and 323), so the clock is kept from the moment wait_execution is entered:
\* now is the time since then, and 0 before.
Tick(dt) == now' = IF pc = "wait" THEN now + dt ELSE now

\* a call of _request starts: lines 142-143
BeginRequest ==
    /\ attempt' = 1
    /\ last_exc' = None
    /\ sleeps' = <<>>

\* the attempt failed and is retried: lines 163-166 and 169-173
Retry(o, d) ==
    /\ attempt' = attempt + 1
    /\ last_exc' = exc_after(o)
    /\ sleeps' = Append(sleeps, backoff(backoff_sec, attempt))
    /\ Tick(d + backoff(backoff_sec, attempt))

\* the attempt ended the call (return at line 167 or raise at line 175)
EndRequest(o, d) ==
    /\ attempt' = attempt
    /\ last_exc' = exc_after(o)
    /\ sleeps' = sleeps
    /\ Tick(d)

----------------------------------------------------------------------------
(* The stage functions, as functions of what _request returned. *)

\* login_get_token, lines 204-211
login_get_token(status, text) ==
    IF status >= 400 THEN [kind |-> "raise", value |-> "", err |-> Err("Auth", status, text, "")]
    ELSE IF ~is_dict(text)
         THEN [kind |-> "raise", value |-> "", err |-> Err("AttributeError", status, text, "")]
    ELSE IF falsy(get(parsed(text), "value", None))
         THEN [kind |-> "raise", value |-> "", err |-> Err("TokenMissing", status, text, "")]
    ELSE [kind |-> "ok", value |-> get(parsed(text), "value", None), err |-> NoError]

\* upload_blueprint_zip, lines 235-237
upload_blueprint_zip(status, text) ==
    IF status >= 400 THEN [kind |-> "raise", err |-> Err("Upload", status, text, "")]
    ELSE [kind |-> "ok", err |-> NoError]

\* an existence check that takes every 4xx answer for "not found"
deployment_exists_any_4xx_missing(status) ==
    IF status >= 400 /\ status < 500 THEN "false"
    ELSE IF status >= 400 THEN "raise"
    ELSE "true"

\* deployment_exists, lines 243-247: "false", "true", or "raise"
deployment_exists(status) ==
    IF status = 404 THEN "false"
    ELSE IF status >= 400 THEN "raise"
    ELSE "true"

\* "Failed to check deployment (HTTP {status}) {deployment_id}", line 246
ExistsError(status) == Err("ExistsCheck", status, "", "")

\* create_deployment, lines 269-271
create_deployment(status, text) ==
    IF status >= 400 THEN [kind |-> "raise", err |-> Err("Create", status, text, "")]
    ELSE [kind |-> "ok", err |-> NoError]

\* a start that does not check the id it extracts
start_execution_unchecked_id(status, text) ==
    IF status >= 400 THEN [kind |-> "raise", value |-> "", err |-> Err("Start", status, text, "")]
    ELSE IF ~is_dict(text)
         THEN [kind |-> "raise", value |-> "", err |-> Err("AttributeError", status, text, "")]
    ELSE [kind |-> "ok", value |-> get(parsed(text), "id", None), err |-> NoError]

\* start_execution, lines 295-302
start_execution(status, text) ==
    IF status >= 400 THEN [kind |-> "raise", value |-> "", err |-> Err("Start", status, text, "")]
    ELSE IF ~is_dict(text)
         THEN [kind |-> "raise", value |-> "", err |-> Err("AttributeError", status, text, "")]
    ELSE IF falsy(get(parsed(text), "id", None))
         THEN [kind |-> "raise", value |-> "", err |-> Err("MissingExecId", status, text, "")]
    ELSE [kind |-> "ok", value |-> get(parsed(text), "id", None), err |-> NoError]

\* a polling loop that never looks at the deadline
wait_execution_no_deadline(status, text, t, dl) ==
    LET s == get(parsed(text), "status", "unknown") IN
    IF status >= 400
    THEN [kind |-> "raise", classified |-> FALSE, st |-> "",
          err |-> Err("ReadExecution", status, text, "")]
    ELSE IF ~is_dict(text)
    THEN [kind |-> "raise", classified |-> FALSE, st |-> "",
          err |-> Err("AttributeError", status, text, "")]
    ELSE IF s = "terminated"
    THEN [kind |-> "return", classified |-> TRUE, st |-> s, err |-> NoError]
    ELSE IF s \in {"failed", "cancelled"}
    THEN [kind |-> "raise", classified |-> TRUE, st |-> s,
          err |-> Err("ExecutionFailed", status, text, s)]
    ELSE [kind |-> "sleep", classified |-> TRUE, st |-> s, err |-> NoError]

\* a polling loop that takes a body without a status for a failed execution
wait_execution_unknown_fails(status, text, t, dl) ==
    LET s == get(parsed(text), "status", "unknown") IN
    IF status >= 400
    THEN [kind |-> "raise", classified |-> FALSE, st |-> "",
          err |-> Err("ReadExecution", status, text, "")]
    ELSE IF ~is_dict(text)
    THEN [kind |-> "raise", classified |-> FALSE, st |-> "",
          err |-> Err("AttributeError", status, text, "")]
    ELSE IF s = "terminated"
    THEN [kind |-> "return", classified |-> TRUE, st |-> s, err |-> NoError]
    ELSE IF s \in {"failed", "cancelled", "unknown"}
    THEN [kind |-> "raise", classified |-> TRUE, st |-> s,
          err |-> Err("ExecutionFailed", status, text, s)]
    ELSE IF t > dl
    THEN [kind |-> "raise", classified |-> TRUE, st |-> s,
          err |-> Err("Timeout", 0, "", s)]
    ELSE [kind |-> "sleep", classified |-> TRUE, st |-> s, err |-> NoError]

\* a polling loop that reads the body's status before the HTTP status
wait_execution_body_first(status, text, t, dl) ==
    LET s == get(parsed(text), "status", "unknown") IN
    IF is_dict(text) /\ s = "terminated"
    THEN [kind |-> "return", classified |-> TRUE, st |-> s, err |-> NoError]
    ELSE IF is_dict(text) /\ s \in {"failed", "cancelled"}
    THEN [kind |-> "raise", classified |-> TRUE, st |-> s,
          err |-> Err("ExecutionFailed", status, text, s)]
    ELSE IF status >= 400
    THEN [kind |-> "raise", classified |-> FALSE, st |-> "",
          err |-> Err("ReadExecution", status, text, "")]
    ELSE IF ~is_dict(text)
    THEN [kind |-> "raise", classified |-> FALSE, st |-> "",
          err |-> Err("AttributeError", status, text, "")]
    ELSE IF t > dl
    THEN [kind |-> "raise", classified |-> TRUE, st |-> s,
          err |-> Err("Timeout", 0, "", s)]
    ELSE [kind |-> "sleep", classified |-> TRUE, st |-> s, err |-> NoError]

\* a polling loop that gives up as soon as the deadline instant is reached
wait_execution_deadline_inclusive(status, text, t, dl) ==
    LET s == get(parsed(text), "status", "unknown") IN
    IF status >= 400
    THEN [kind |-> "raise", classified |-> FALSE, st |-> "",
          err |-> Err("ReadExecution", status, text, "")]
    ELSE IF ~is_dict(text)
    THEN [kind |-> "raise", classified |-> FALSE, st |-> "",
          err |-> Err("AttributeError", status, text, "")]
    ELSE IF t >= dl
    THEN [kind |-> "raise", classified |-> TRUE, st |-> s,
          err |-> Err("Timeout", 0, "", s)]
    ELSE IF s = "terminated"
    THEN [kind |-> "return", classified |-> TRUE, st |-> s, err |-> NoError]
    ELSE IF s \in {"failed", "cancelled"}
    THEN [kind |-> "raise", classified |-> TRUE, st |-> s,
          err |-> Err("ExecutionFailed", status, text, s)]
    ELSE [kind |-> "sleep", classified |-> TRUE, st |-> s, err |-> NoError]

\* a polling loop that looks at the deadline before it looks at the status
wait_execution_deadline_first(status, text, t, dl) ==
    LET s == get(parsed(text), "status", "unknown") IN
    IF status >= 400
    THEN [kind |-> "raise", classified |-> FALSE, st |-> "",
          err |-> Err("ReadExecution", status, text, "")]
    ELSE IF ~is_dict(text)
    THEN [kind |-> "raise", classified |-> FALSE, st |-> "",
          err |-> Err("AttributeError", status, text, "")]
    ELSE IF t > dl
    THEN [kind |-> "raise", classified |-> TRUE, st |-> s,
          err |-> Err("Timeout", 0, "", s)]
    ELSE IF s = "terminated"
    THEN [kind |-> "return", classified |-> TRUE, st |-> s, err |-> NoError]
    ELSE IF s \in {"failed", "cancelled"}
    THEN [kind |-> "raise", classified |-> TRUE, st |-> s,
          err |-> Err("ExecutionFailed", status, text, s)]
    ELSE [kind |-> "sleep", classified |-> TRUE, st |-> s, err |-> NoError]

\* a polling loop that waits for the status "completed"
wait_execution_other_success_word(status, text, t, dl) ==
    LET s == get(parsed(text), "status", "unknown") IN
    IF status >= 400
    THEN [kind |-> "raise", classified |-> FALSE, st |-> "",
          err |-> Err("ReadExecution", status, text, "")]
    ELSE IF ~is_dict(text)
    THEN [kind |-> "raise", classified |-> FALSE, st |-> "",
          err |-> Err("AttributeError", status, text, "")]
    ELSE IF s = "completed"
    THEN [kind |-> "return", classified |-> TRUE, st |-> s, err |-> NoError]
    ELSE IF s \in {"failed", "cancelled"}
    THEN [kind |-> "raise", classified |-> TRUE, st |-> s,
          err |-> Err("ExecutionFailed", status, text, s)]
    ELSE IF t > dl
    THEN [kind |-> "raise", classified |-> TRUE, st |-> s,
          err |-> Err("Timeout", 0, "", s)]
    ELSE [kind |-> "sleep", classified |-> TRUE, st |-> s, err |-> NoError]

\* a polling loop that does not know the status "cancelled"
wait_execution_cancelled_unknown(status, text, t, dl) ==
    LET s == get(parsed(text), "status", "unknown") IN
    IF status >= 400
    THEN [kind |-> "raise", classified |-> FALSE, st |-> "",
          err |-> Err("ReadExecution", status, text, "")]
    ELSE IF ~is_dict(text)
    THEN [kind |-> "raise", classified |-> FALSE, st |-> "",
          err |-> Err("AttributeError", status, text, "")]
    ELSE IF s = "terminated"
    THEN [kind |-> "return", classified |-> TRUE, st |-> s, err |-> NoError]
    ELSE IF s \in {"failed"}
    THEN [kind |-> "raise", classified |-> TRUE, st |-> s,
          err |-> Err("ExecutionFailed", status, text, s)]
    ELSE IF t > dl
    THEN [kind |-> "raise", classified |-> TRUE, st |-> s,
          err |-> Err("Timeout", 0, "", s)]
    ELSE [kind |-> "sleep", classified |-> TRUE, st |-> s, err |-> NoError]

\* One iteration of the loop of wait_execution after _request returned,
\* lines 311-326; t is the clock when line 323 reads it.  classified says
\* whether line 314 assigned st.
wait_execution(status, text, t, dl) ==
    LET s == get(parsed(text), "status", "unknown") IN
    IF status >= 400
    THEN [kind |-> "raise", classified |-> FALSE, st |-> "",
          err |-> Err("ReadExecution", status, text, "")]
    ELSE IF ~is_dict(text)
    THEN [kind |-> "raise", classified |-> FALSE, st |-> "",
          err |-> Err("AttributeError", status, text, "")]
    ELSE IF s = "terminated"
    THEN [kind |-> "return", classified |-> TRUE, st |-> s, err |-> NoError]
    ELSE IF s \in {"failed", "cancelled"}
    THEN [kind |-> "raise", classified |-> TRUE, st |-> s,
          err |-> Err("ExecutionFailed", status, text, s)]
    ELSE IF t > dl
    THEN [kind |-> "raise", classified |-> TRUE, st |-> s,
          err |-> Err("Timeout", 0, "", s)]
    ELSE [kind |-> "sleep", classified |-> TRUE, st |-> s, err |-> NoError]

----------------------------------------------------------------------------
(* main and parse_args. *)

\* argparse action="store_true" with the given default, lines 355-356
store_true(given, default) == IF given THEN TRUE ELSE default

\* a main that checks the deployment before it uploads the blueprint
main_next_exists_before_upload(stage) ==
    CASE stage = "login" -> "exists"
      [] stage = "upload" -> "start"
      [] stage = "create" -> "upload"

\* the order in which main calls the stages that follow one another
\* unconditionally, lines 392-401
main_next(stage) ==
    CASE stage = "login" -> "upload"
      [] stage = "upload" -> "exists"
      [] stage = "create" -> "start"

\* a main that creates the deployment whether or not it exists
main_after_exists_always_create(exists, create) ==
    IF ~create THEN "die" ELSE "create"

\* what main does with the result of deployment_exists, lines 396-401
main_after_exists(exists, create) ==
    IF ~exists
    THEN IF ~create THEN "die" ELSE "create"
    ELSE "start"

Stages == {"login", "upload", "exists", "create", "start", "wait"}

cfgVars == <<create_if_missing, wait, retries, backoff_sec, exec_timeout_sec,
             poll_interval_sec>>

waitVars == <<deadline, polls, wait_sleeps, st>>

ghostVars == <<trace, ret>>

\* the state of the specifications that are no single run of main
concVars == <<runs, files>>

mergeVars == <<inputs_file, loaded, merged_inputs, merge_args>>

sideVars == <<concVars, mergeVars>>

\* a pipeline whose status polls are made without the token
stage_token_polls_without(stage, tok) == IF stage \in {"login", "wait"} THEN None ELSE tok

\* the token argument of the stage's call of _request: login_get_token passes
\* none (lines 193-202), every other stage passes main's token (lines 230,
\* 242, 265, 291, 310)
stage_token(stage, tok) == IF stage = "login" THEN None ELSE tok

\* the Authentication-Token header of a call of _request, lines 136-137,
\* set once before the loop and so the same for every attempt of the call;
\* None stands for no such header
auth_header(tok) == IF falsy(tok) THEN None ELSE tok

\* the attempt of the step goes out to the manager
Send == sent' = sent \cup {<<pc, auth_header(stage_token(pc, token))>>}

\* the archive is ArchiveLen blocks long (a zip file is never empty)
ArchiveLen == 2

\* no file is open
NoHandle == -1

\* open(blueprint_zip, "rb"), line 225: a new handle stands at the start
open_rb == 0

\* where f can stand after an attempt that began with f at pos: requests
\* reads the body from f's position on and never seeks.  An attempt that got
\* a response has sent the body to its end; one that raised failed before,
\* while or after sending it.
read_body(pos, o) == IF o.kind = "response" THEN {ArchiveLen} ELSE pos..ArchiveLen

\* what a stage was handed by _request
Handed(stage, o) == [stage |-> stage, status |-> o.status, text |-> o.text]

\* the attempt is retried inside _request; the stage sees nothing
Retrying(o, d) ==
    /\ Retry(o, d)
    /\ resp' = NoResp
    /\ UNCHANGED <<pc, exit_code, error, archive, token, exec_id, invoked, existed,
                   waitVars>>

\* a handler that reports every exception with die's default code
exit_status_always_error(kind) == ExitError

\* the exit status of the process when an exception of the given kind leaves
\* main, lines 413-419: die(str(e)) with the default code for a
\* CloudifyAPIError, die("Interrupted", code=130) for a KeyboardInterrupt
\* (an exception no clause names ends the interpreter with status 1 too)
exit_status(kind) == IF kind = "KeyboardInterrupt" THEN ExitInterrupt ELSE ExitError

\* the exceptions the handler of _request's loop catches, lines 168-173;
\* KeyboardInterrupt is none of them
request_catches(exc) == exc \in {"Timeout", "ConnectionError", "RequestException"}

\* an exception leaves main: __main__ reports it with die(...), lines 414-417
\* (an exception that is no CloudifyAPIError ends the process with status 1 too)
Fail(err, r, o, d) ==
    /\ pc' = "exit"
    /\ exit_code' = exit_status(err.kind)
    /\ error' = err
    /\ resp' = r
    /\ EndRequest(o, d)
    /\ UNCHANGED <<archive, token, exec_id, invoked, deadline, polls, wait_sleeps>>

\* main calls the next stage function, which starts its call of _request
Call(stage, r, o, d) ==
    /\ pc' = stage
    /\ invoked' = Append(invoked, stage)
    /\ resp' = r
    /\ BeginRequest
    /\ Tick(d)
    /\ UNCHANGED <<exit_code, error, archive>>

\* main enters wait_execution (lines 306-310) when args.wait, else cleans up
\* (lines 406-410) and returns
Cleanup(r, o, d) ==
    /\ pc' = "exit"
    /\ exit_code' = ExitOk
    /\ error' = NoError
    /\ resp' = r
    /\ EndRequest(o, d)
    /\ \E removed \in BOOLEAN : archive' = (archive /\ ~removed)
    /\ UNCHANGED <<token, invoked>>

----------------------------------------------------------------------------
(* The steps of a run of main. *)

\* main up to its first HTTP attempt, lines 365-392: argument checks, input
\* files, the archive, then the call of login_get_token
MainStart ==
    /\ pc = "main"
    /\ \E args_ok \in BOOLEAN, inputs_ok \in BOOLEAN, dir_ok \in BOOLEAN :
         IF ~args_ok \/ ~inputs_ok \/ ~dir_ok
         THEN /\ pc' = "exit"
              /\ exit_code' = ExitError
              /\ error' = Err(IF ~args_ok THEN "MissingArgument"
                              ELSE IF ~inputs_ok THEN "InputsFile"
                              ELSE "BlueprintDir", 0, "", "")
              /\ UNCHANGED <<archive, invoked, attempt, last_exc, sleeps>>
         ELSE /\ archive' = TRUE
              /\ pc' = "login"
              /\ invoked' = Append(invoked, "login")
              /\ BeginRequest
              /\ UNCHANGED <<exit_code, error>>
    /\ UNCHANGED <<token, exec_id, existed, now, resp, fpos, sent, waitVars, cfgVars, ghostVars,
                   sideVars>>

\* one attempt of POST /tokens and what login_get_token and main do with it
LoginAttempt ==
    /\ pc = "login"
    /\ \E o \in Outcomes, d \in Durations :
         LET step == request(attempt, retries, o)
             r == login_get_token(o.status, o.text)
         IN  IF step = "retry" THEN Retrying(o, d)
             ELSE IF step = "raise"
             THEN Fail(TransportError(exc_after(o)), NoResp, o, d) /\ UNCHANGED st
             ELSE IF r.kind = "raise"
             THEN Fail(r.err, Handed("login", o), o, d) /\ UNCHANGED st
             ELSE /\ token' = r.value
                  /\ Call(main_next("login"), Handed("login", o), o, d)
                  /\ UNCHANGED <<exec_id, waitVars>>
    /\ fpos' = IF pc' = "upload" THEN open_rb ELSE fpos
    /\ Send
    /\ UNCHANGED <<existed, cfgVars, ghostVars, sideVars>>

\* one attempt of PUT /blueprints/{id}: requests reads the body from f,
\* from where f stands; a retry goes on with the same f, and leaving the
\* `with` block closes it (lines 225-233)
UploadAttempt ==
    /\ pc = "upload"
    /\ \E o \in Outcomes, d \in Durations :
         /\ LET step == request(attempt, retries, o)
                r == upload_blueprint_zip(o.status, o.text)
            IN  IF step = "retry" THEN Retrying(o, d)
                ELSE IF step = "raise"
                THEN Fail(TransportError(exc_after(o)), NoResp, o, d) /\ UNCHANGED st
                ELSE IF r.kind = "raise"
                THEN Fail(r.err, Handed("upload", o), o, d) /\ UNCHANGED st
                ELSE /\ Call(main_next("upload"), Handed("upload", o), o, d)
                     /\ UNCHANGED <<token, exec_id, waitVars>>
         /\ IF pc' = "upload" THEN fpos' \in read_body(fpos, o) ELSE fpos' = NoHandle
    /\ Send
    /\ UNCHANGED <<existed, cfgVars, ghostVars, sideVars>>

\* one attempt of GET /deployments/{id} and main's branch on the answer,
\* lines 396-401
ExistsAttempt ==
    /\ pc = "exists"
    /\ \E o \in Outcomes, d \in Durations :
         LET step == request(attempt, retries, o)
             r == deployment_exists(o.status)
             branch == main_after_exists(r = "true", create_if_missing)
         IN  IF step = "retry" THEN Retrying(o, d)
             ELSE IF step = "raise"
             THEN /\ Fail(TransportError(exc_after(o)), NoResp, o, d)
                  /\ UNCHANGED <<st, existed>>
             ELSE IF r = "raise"
             THEN /\ Fail(ExistsError(o.status), Handed("exists", o), o, d)
                  /\ UNCHANGED <<st, existed>>
             ELSE IF branch = "die"
             THEN /\ Fail(Err("DeploymentMissing", 0, "", ""), Handed("exists", o), o, d)
                  /\ existed' = r
                  /\ UNCHANGED st
             ELSE /\ Call(branch, Handed("exists", o), o, d)
                  /\ existed' = r
                  /\ UNCHANGED <<token, exec_id, waitVars>>
    /\ UNCHANGED fpos
    /\ Send
    /\ UNCHANGED <<cfgVars, ghostVars, sideVars>>

\* one attempt of PUT /deployments/{id}
CreateAttempt ==
    /\ pc = "create"
    /\ \E o \in Outcomes, d \in Durations :
         LET step == request(attempt, retries, o)
             r == create_deployment(o.status, o.text)
         IN  IF step = "retry" THEN Retrying(o, d)
             ELSE IF step = "raise"
             THEN Fail(TransportError(exc_after(o)), NoResp, o, d) /\ UNCHANGED st
             ELSE IF r.kind = "raise"
             THEN Fail(r.err, Handed("create", o), o, d) /\ UNCHANGED st
             ELSE /\ Call(main_next("create"), Handed("create", o), o, d)
                  /\ UNCHANGED <<token, exec_id, waitVars>>
    /\ UNCHANGED fpos
    /\ Send
    /\ UNCHANGED <<existed, cfgVars, ghostVars, sideVars>>

\* one attempt of POST /executions; on success main goes on to
\* wait_execution (lines 403-404, 306-307) or, without args.wait, to cleanup
StartAttempt ==
    /\ pc = "start"
    /\ \E o \in Outcomes, d \in Durations :
         LET step == request(attempt, retries, o)
             r == start_execution(o.status, o.text)
         IN  IF step = "retry" THEN Retrying(o, d)
             ELSE IF step = "raise"
             THEN Fail(TransportError(exc_after(o)), NoResp, o, d) /\ UNCHANGED st
             ELSE IF r.kind = "raise"
             THEN Fail(r.err, Handed("start", o), o, d) /\ UNCHANGED st
             ELSE IF wait
             THEN /\ exec_id' = r.value
                  /\ Call("wait", Handed("start", o), o, d)
                  /\ deadline' = now' + exec_timeout_sec
                  /\ polls' = 1
                  /\ UNCHANGED <<token, wait_sleeps, st>>
             ELSE /\ exec_id' = r.value
                  /\ Cleanup(Handed("start", o), o, d)
                  /\ UNCHANGED waitVars
    /\ UNCHANGED fpos
    /\ Send
    /\ UNCHANGED <<existed, cfgVars, ghostVars, sideVars>>

\* one attempt of GET /executions/{id} and, when _request returns, the rest
\* of the iteration of wait_execution's loop (lines 311-326); a return of
\* wait_execution is followed by main's cleanup and exit
PollAttempt ==
    /\ pc = "wait"
    /\ \E o \in Outcomes, d \in Durations :
         LET step == request(attempt, retries, o)
             w == wait_execution(o.status, o.text, now + d, deadline)
         IN  IF step = "retry" THEN Retrying(o, d)
             ELSE IF step = "raise"
             THEN Fail(TransportError(exc_after(o)), NoResp, o, d) /\ UNCHANGED st
             ELSE IF w.kind = "raise"
             THEN /\ Fail(w.err, Handed("wait", o), o, d)
                  /\ st' = IF w.classified THEN w.st ELSE st
             ELSE IF w.kind = "return"
             THEN /\ Cleanup(Handed("wait", o), o, d)
                  /\ st' = w.st
                  /\ UNCHANGED <<exec_id, deadline, polls, wait_sleeps>>
             ELSE /\ st' = w.st
                  /\ wait_sleeps' = wait_sleeps + 1
                  /\ polls' = polls + 1
                  /\ resp' = Handed("wait", o)
                  /\ BeginRequest
                  /\ now' = now + d + poll_interval_sec
                  /\ UNCHANGED <<pc, exit_code, error, archive, token, exec_id,
                                 invoked, deadline>>
    /\ UNCHANGED fpos
    /\ Send
    /\ UNCHANGED <<existed, cfgVars, ghostVars, sideVars>>

\* KeyboardInterrupt while main is running: no handler in main or _request
\* catches it, __main__ reports it with die("Interrupted", code=130)
Interrupt ==
    /\ pc \in Stages \cup {"main"}
    /\ ~request_catches("KeyboardInterrupt")
    /\ pc' = "exit"
    /\ exit_code' = exit_status("KeyboardInterrupt")
    /\ error' = Err("KeyboardInterrupt", 0, "", "")
    /\ resp' = NoResp
    /\ UNCHANGED <<archive, token, exec_id, invoked, existed, attempt, last_exc, sleeps,
                   now, fpos, sent, waitVars, cfgVars, ghostVars, sideVars>>

\* the values every run starts from
InitCommon ==
    /\ exit_code = NoExit
    /\ error = NoError
    /\ archive = FALSE
    /\ token = ""
    /\ exec_id = ""
    /\ invoked = <<>>
    /\ existed = "none"
    /\ attempt = 1
    /\ last_exc = None
    /\ sleeps = <<>>
    /\ now = 0
    /\ deadline = 0
    /\ polls = 0
    /\ wait_sleeps = 0
    /\ st = ""
    /\ resp = NoResp
    /\ fpos = NoHandle
    /\ sent = {}
    /\ trace = <<>>
    /\ ret = NoRet

\* no other run
InitNoRuns ==
    /\ runs = <<>>
    /\ files = <<>>

\* no --inputs-file: lines 385-387 leave merged_inputs = {}
InitNoMerge ==
    /\ inputs_file = <<>>
    /\ loaded = 0
    /\ merged_inputs = EmptyDict
    /\ merge_args = <<>>

InitSide == InitNoRuns /\ InitNoMerge

\* a run given --exec-timeout-sec 30 --poll-interval-sec 10
ScenarioTimeout == 30

ScenarioInterval == 10

\* the values of --exec-timeout-sec and --poll-interval-sec of a run
Timings ==
    ((0..MaxExecTimeout) \X (1..MaxPollInterval))
        \cup {<<ScenarioTimeout, ScenarioInterval>>}

\* the process after parse_args: --create-if-missing and --wait given or not,
\* the timeouts from the command line, _request's defaults for every call
Init ==
    /\ pc = "main"
    /\ \E given \in BOOLEAN : create_if_missing = store_true(given, TRUE)
    /\ \E given \in BOOLEAN : wait = store_true(given, TRUE)
    /\ retries = DefaultRetries
    /\ backoff_sec = DefaultBackoff
    /\ \E t \in Timings : exec_timeout_sec = t[1] /\ poll_interval_sec = t[2]
    /\ InitCommon
    /\ InitSide

Next ==
    \/ MainStart
    \/ LoginAttempt
    \/ UploadAttempt
    \/ ExistsAttempt
    \/ CreateAttempt
    \/ StartAttempt
    \/ PollAttempt
    \/ Interrupt

Spec == Init /\ [][Next]_vars

----------------------------------------------------------------------------
(* One call of wait_execution, from its entry on. *)

\* largest --exec-timeout-sec tried for the call
MaxWaitTimeout == 1

\* main has run every stage up to start_execution without an error (the
\* deployment existed) and enters wait_execution, lines 403-404 and 306-310
InitWait ==
    /\ pc = "wait"
    /\ create_if_missing = TRUE
    /\ wait = TRUE
    /\ retries = DefaultRetries
    /\ backoff_sec = DefaultBackoff
    /\ exec_timeout_sec \in 0..MaxWaitTimeout
    /\ poll_interval_sec \in 1..MaxPollInterval
    /\ exit_code = NoExit
    /\ error = NoError
    /\ archive = TRUE
    /\ token = "tok1"
    /\ exec_id = "e1"
    /\ invoked = <<"login", "upload", "exists", "start", "wait">>
    /\ existed = "true"
    /\ attempt = 1
    /\ last_exc = None
    /\ sleeps = <<>>
    /\ now = 0
    /\ deadline = now + exec_timeout_sec
    /\ polls = 1
    /\ wait_sleeps = 0
    /\ st = ""
    /\ resp = [stage |-> "start", status |-> 200, text |-> BodyId]
    /\ fpos = NoHandle
    /\ sent = {<<"login", None>>, <<"upload", token>>, <<"exists", token>>,
               <<"start", token>>}
    /\ trace = <<>>
    /\ ret = NoRet
    /\ InitSide

NextWait ==
    \/ PollAttempt
    \/ Interrupt

\* every attempt of a status poll gets its answer or its failure
\* (requests.request returns or raises within cfg.request_timeout_sec, line
\* 153) and every time.sleep returns; an interrupt may come or not
SpecWait == InitWait /\ [][NextWait]_vars /\ WF_vars(PollAttempt)

----------------------------------------------------------------------------
(* One direct call of _request with any retry limit and backoff base. *)

\* the bodies sent to a direct call of _request: empty, not JSON, an object
TransportBodies == {BodyEmpty, BodyHtml, BodyId}

TransportOutcomes == {o \in Outcomes : o.kind = "response" => o.text \in TransportBodies}

\* one iteration of the loop of _request, lines 143-173, and the return or
\* raise that ends the call
RequestAttempt ==
    /\ pc = "request"
    /\ attempt <= retries
    /\ \E o \in TransportOutcomes, d \in Durations :
         LET step == request(attempt, retries, o)
         IN  /\ trace' = Append(trace, o)
             /\ IF step = "retry"
                THEN Retry(o, d) /\ UNCHANGED <<pc, ret, error>>
                ELSE IF step = "raise"
                THEN /\ EndRequest(o, d)
                     /\ pc' = "returned"
                     /\ error' = TransportError(exc_after(o))
                     /\ ret' = [kind |-> "raised", status |-> 0, text |-> "",
                                exc |-> exc_after(o)]
                ELSE /\ EndRequest(o, d)
                     /\ pc' = "returned"
                     /\ ret' = [kind |-> "returned", status |-> o.status,
                                text |-> o.text, exc |-> None]
                     /\ UNCHANGED error
    /\ UNCHANGED <<exit_code, archive, token, exec_id, invoked, existed, resp, fpos, sent,
                   waitVars, cfgVars, sideVars>>

\* the loop makes no iteration (retries < 1): line 175 raises at once
RequestNoAttempt ==
    /\ pc = "request"
    /\ attempt > retries
    /\ request(attempt, retries, [kind |-> "none"]) = "raise"
    /\ pc' = "returned"
    /\ error' = TransportError(last_exc)
    /\ ret' = [kind |-> "raised", status |-> 0, text |-> "", exc |-> last_exc]
    /\ UNCHANGED <<exit_code, archive, token, exec_id, invoked, existed, resp, fpos, sent,
                   waitVars, cfgVars, attempt, last_exc, sleeps, now, trace,
                   sideVars>>

InitTransport ==
    /\ pc = "request"
    /\ create_if_missing = TRUE
    /\ wait = TRUE
    /\ retries \in 0..MaxRetries
    /\ backoff_sec \in 1..MaxBackoff
    /\ exec_timeout_sec = 0
    /\ poll_interval_sec = 1
    /\ InitCommon
    /\ InitSide

NextTransport ==
    \/ RequestAttempt
    \/ RequestNoAttempt

SpecTransport == InitTransport /\ [][NextTransport]_vars

----------------------------------------------------------------------------
(* Two runs of main at the same time on one machine: two processes that share
   the directory /tmp.  A step is one of main's uses of the archive file, or
   the stages between two uses. *)

\* the variables of the single run
mainVars == <<pc, exit_code, error, archive, token, exec_id, invoked, existed, cfgVars,
              attempt, last_exc, sleeps, now, waitVars, resp, fpos, sent, ghostVars>>

Runs == {"run1", "run2"}

\* the values of --blueprint-id
BlueprintIds == {"bp1", "bp2"}

\* tmp_zip = f"/tmp/{args.blueprint_id}.zip", line 389
tmp_zip(blueprint_id) == "/tmp/" \o blueprint_id \o ".zip"

Paths == {tmp_zip(b) : b \in BlueprintIds}

\* the archive path of run r
PathOf(r) == tmp_zip(runs[r].blueprint_id)

\* run r moves on in main
Goto(r, to) == runs' = [runs EXCEPT ![r].pc = to]

\* build_zip_from_dir, lines 390 and 76: ZipFile(out_zip, "w") truncates
\* whatever is at the path and writes this run's archive there
RunBuild(r) ==
    /\ runs[r].pc = "build"
    /\ files' = [files EXCEPT ![PathOf(r)] = r]
    /\ Goto(r, "login")
    /\ UNCHANGED <<mainVars, mergeVars>>

\* login_get_token, line 392: on an error the run ends, the file stays
RunLogin(r) ==
    /\ runs[r].pc = "login"
    /\ \E ok \in BOOLEAN : Goto(r, IF ok THEN "upload" ELSE "exit")
    /\ UNCHANGED <<files, mainVars, mergeVars>>

\* upload_blueprint_zip, lines 394 and 225-236: open(blueprint_zip, "rb")
\* fails when there is no file at the path (FileNotFoundError leaves main);
\* otherwise what is stored there now is sent, and the answer is accepted or not
RunUpload(r) ==
    /\ runs[r].pc = "upload"
    /\ IF files[PathOf(r)] = "none"
       THEN Goto(r, "exit")
       ELSE \E ok \in BOOLEAN :
              runs' = [runs EXCEPT ![r].uploaded = files[PathOf(r)],
                                   ![r].pc = IF ok THEN "deploy" ELSE "exit"]
    /\ UNCHANGED <<files, mainVars, mergeVars>>

\* lines 396-404: existence check, creation, start and wait; an error in any
\* of them ends the run before the cleanup
RunDeploy(r) ==
    /\ runs[r].pc = "deploy"
    /\ \E ok \in BOOLEAN : Goto(r, IF ok THEN "cleanup" ELSE "exit")
    /\ UNCHANGED <<files, mainVars, mergeVars>>

\* lines 406-410: os.remove(tmp_zip), an OSError is ignored
RunCleanup(r) ==
    /\ runs[r].pc = "cleanup"
    /\ files' = [files EXCEPT ![PathOf(r)] = "none"]
    /\ Goto(r, "exit")
    /\ UNCHANGED <<mainVars, mergeVars>>

\* two runs about to build their archives; /tmp may hold a file an earlier
\* run left behind
InitConcurrent ==
    /\ pc = "concurrent"
    /\ create_if_missing = TRUE
    /\ wait = TRUE
    /\ retries = DefaultRetries
    /\ backoff_sec = DefaultBackoff
    /\ exec_timeout_sec = 0
    /\ poll_interval_sec = 1
    /\ InitCommon
    /\ runs \in [Runs -> {[pc |-> "build", blueprint_id |-> b, uploaded |-> "none"] :
                               b \in BlueprintIds}]
    /\ files \in [Paths -> {"none", "stale"}]
    /\ InitNoMerge

NextConcurrent ==
    \E r \in Runs :
        \/ RunBuild(r)
        \/ RunLogin(r)
        \/ RunUpload(r)
        \/ RunDeploy(r)
        \/ RunCleanup(r)

SpecConcurrent == InitConcurrent /\ [][NextConcurrent]_vars

----------------------------------------------------------------------------
(* The loop of main that merges the input files, lines 384-387. *)

\* largest number of --inputs-file arguments
MaxSources == 3

InputKeys == {"a", "b"}

InputValues == {1, 2, 3}

\* the mappings load_yaml_file can return: any keys, any values
Dicts == UNION {[K -> InputValues] : K \in SUBSET InputKeys}

\* a merge in which the keys already set win
merge_dicts_keep_first(base, override) ==
    [out |-> [k \in DOMAIN base \cup DOMAIN override |->
                 IF k \in DOMAIN base THEN base[k] ELSE override[k]],
     base |-> base,
     override |-> override]

\* merge_dicts, lines 61-64: out = dict(base) is a new dict, out.update(override)
\* writes to it alone.  The value: what is returned and what the two
\* argument objects hold after the call.
merge_dicts(base, override) ==
    [out |-> [k \in DOMAIN base \cup DOMAIN override |->
                 IF k \in DOMAIN override THEN override[k] ELSE base[k]],
     base |-> base,
     override |-> override]

\* one iteration of `for fpath in args.inputs_file`, lines 386-387
MergeNext ==
    /\ pc = "merge"
    /\ loaded < Len(inputs_file)
    /\ LET m == merge_dicts(merged_inputs, inputs_file[loaded + 1])
       IN  /\ merged_inputs' = m.out
           /\ merge_args' = [base_in |-> merged_inputs,
                             override_in |-> inputs_file[loaded + 1],
                             base |-> m.base,
                             override |-> m.override]
    /\ loaded' = loaded + 1
    /\ UNCHANGED <<inputs_file, mainVars, concVars>>

\* the loop is over: main goes on with merged_inputs, line 389
MergeDone ==
    /\ pc = "merge"
    /\ loaded = Len(inputs_file)
    /\ pc' = "merged"
    /\ UNCHANGED <<exit_code, error, archive, token, exec_id, invoked, existed, cfgVars,
                   attempt, last_exc, sleeps, now, waitVars, resp, fpos, sent,
                   ghostVars, sideVars>>

\* main before the loop, with up to MaxSources input files
InitMerge ==
    /\ pc = "merge"
    /\ create_if_missing = TRUE
    /\ wait = TRUE
    /\ retries = DefaultRetries
    /\ backoff_sec = DefaultBackoff
    /\ exec_timeout_sec = 0
    /\ poll_interval_sec = 1
    /\ InitCommon
    /\ InitNoRuns
    /\ inputs_file \in UNION {[1..n -> Dicts] : n \in 0..MaxSources}
    /\ loaded = 0
    /\ merged_inputs = EmptyDict
    /\ merge_args = <<>>

NextMerge ==
    \/ MergeNext
    \/ MergeDone

SpecMerge == InitMerge /\ [][NextMerge]_vars

----------------------------------------------------------------------------
(* Properties of _request, checked under SpecTransport. *)

\* an attempt that ended in a transient failure: a 5xx response, a connection
\* failure or a timeout
Transient(o) == o.kind = "exception" \/ o.status >= 500

AllTransient(s) == \A i \in 1..Len(s) : Transient(s[i])

----------------------------------------------------------------------------
(* Properties of a run of main, checked under Spec. *)

Range(s) == {s[i] : i \in DOMAIN s}

\* the status string wait_execution reads from a body, line 314
PollStatus(text) == get(parsed(text), "status", "unknown")

\* the step just taken handed wait_execution a response that it classified
Classified == resp.stage = "wait" /\ resp.status < 400 /\ is_dict(resp.text)

\* C3: once main has built the archive, the process never exits with the
\* archive still in place, whatever the way it exits.
C3_ArchiveRemovedOnEveryExit ==
    (pc = "exit" /\ invoked # <<>>) => ~archive

\* what deployment_exists did with the status handed to it in the step just taken
ExistsReturned == resp.stage = "exists"

ExistsRaised == pc = "exit" /\ exit_code = ExitError /\ error.kind = "ExistsCheck"

\* C4 as stated: deployment_exists returns false exactly for 404, true for
\* any 2xx, and raises the existence-check error for every other status.
C4_OnlyTwoHundredsExist ==
    ExistsReturned
        => /\ (resp.status = 404) <=> (existed = "false")
           /\ (resp.status \in 200..299) <=> (existed = "true")
           /\ (resp.status # 404 /\ resp.status \notin 200..299) <=> ExistsRaised

\* C4 amended: deployment_exists returns false exactly for 404, true for
\* every status below 400 (1xx, 2xx and 3xx alike), and raises the
\* existence-check error for every other status of 400 or more.
C4_BelowFourHundredExists ==
    ExistsReturned
        => /\ (resp.status = 404) <=> (existed = "false")
           /\ (resp.status < 400) <=> (existed = "true")
           /\ (resp.status >= 400 /\ resp.status # 404) <=> ExistsRaised
           /\ ExistsRaised => (existed = "none" /\ error.status = resp.status)

\* C4 witness: a 3xx answer taken for an existing deployment
C4_Witness ==
    /\ ExistsReturned
    /\ resp.status = 302
    /\ existed = "true"
    /\ pc = "start"

RECURSIVE Sum(_)
Sum(s) == IF s = <<>> THEN 0 ELSE s[1] + Sum(Tail(s))

\* the call of _request that just ended was started after the deadline: even
\* if each of its attempts took the longest time, it began past the deadline
PollMadeAfterDeadline ==
    now - attempt * MaxReqDur - Sum(sleeps) > deadline

\* C5 as stated: when the clock has passed the deadline before any terminal
\* status was observed, wait_execution ends with the timeout error; a status
\* delivered by a poll made after the deadline never gives another outcome.
C5_PastDeadlineAlwaysTimeout ==
    (pc = "exit" /\ Classified /\ PollMadeAfterDeadline) => error.kind = "Timeout"

\* C5 amended: the deadline is the time of entry plus exec_timeout_sec and is
\* never recomputed; wait_execution ends with the timeout error exactly when
\* a poll delivers a non-terminal status and the clock read after that poll
\* is strictly past the deadline; a terminal status decides the outcome
\* whenever it is delivered, also by a poll made after the deadline; and the
\* loop sleeps and polls again only if the clock was not past the deadline.
C5_TimeoutIffNonTerminalPastDeadline ==
    /\ "wait" \in Range(invoked) => deadline = exec_timeout_sec
    /\ (pc = "exit" /\ Classified)
           => LET s == PollStatus(resp.text) IN
              IF s = "terminated" THEN exit_code = ExitOk /\ error = NoError
              ELSE IF s \in {"failed", "cancelled"} THEN error.kind = "ExecutionFailed"
              ELSE error.kind = "Timeout" /\ error.st = s /\ now > deadline
    /\ error.kind = "Timeout"
           => /\ pc = "exit" /\ exit_code = ExitError
              /\ Classified
              /\ PollStatus(resp.text) \notin {"terminated", "failed", "cancelled"}
              /\ now > deadline
    /\ (pc = "wait" /\ Classified) => now - poll_interval_sec <= deadline

\* C5 witness: a timeout after at least two polls, and at a poll that began
\* when the deadline had already passed
C5_Witness ==
    /\ pc = "exit"
    /\ error.kind = "Timeout"
    /\ polls >= 2
    /\ PollMadeAfterDeadline

\* C6: a poll that delivers the status "terminated" makes wait_execution
\* return success at once, however many polls came before: the run ends with
\* exit status 0 and no error, and every sleep of the loop was followed by
\* that or an earlier poll, so none was made after it.
C6_TerminatedReturnsSuccess ==
    (Classified /\ PollStatus(resp.text) = "terminated")
        => /\ pc = "exit"
           /\ exit_code = ExitOk
           /\ error = NoError
           /\ st = "terminated"
           /\ polls = wait_sleeps + 1

\* C6 witness: success at the third poll
C6_Witness ==
    /\ Classified
    /\ PollStatus(resp.text) = "terminated"
    /\ exit_code = ExitOk
    /\ polls = 3

\* C7: a poll that delivers "failed" or "cancelled" ends wait_execution at
\* once with the execution-failed error carrying that response's text: the
\* run has ended, with no sleep and no poll after that poll.
C7_FailureStatusRaisesAtOnce ==
    (Classified /\ PollStatus(resp.text) \in {"failed", "cancelled"})
        => /\ pc = "exit"
           /\ exit_code = ExitError
           /\ error.kind = "ExecutionFailed"
           /\ error.text = resp.text
           /\ error.st = PollStatus(resp.text)
           /\ polls = wait_sleeps + 1

\* C7 witness: "cancelled" delivered by the second poll
C7_Witness ==
    /\ Classified
    /\ PollStatus(resp.text) = "cancelled"
    /\ error.kind = "ExecutionFailed"
    /\ polls = 2

\* the body gives start_execution no usable id
NoExecId(text) == ~is_dict(text) \/ falsy(get(parsed(text), "id", None))

Follows(a, b) ==
    \/ a = "login" /\ b = "upload"
    \/ a = "upload" /\ b = "exists"
    \/ a = "exists" /\ b \in {"create", "start"}
    \/ a = "create" /\ b = "start"
    \/ a = "start" /\ b = "wait"

\* C9: main calls the stages in the order login, upload, exists, (create),
\* start, wait, each at most once; the stage in progress is the last one
\* called and no error has been raised so far; and once an error is raised
\* the run is over: no stage is called or re-run afterwards.
C9_StagesInOrderAndErrorsFatal ==
    /\ [](/\ invoked # <<>> => invoked[1] = "login"
          /\ \A i \in 1..(Len(invoked) - 1) : Follows(invoked[i], invoked[i + 1])
          /\ pc \in Stages => (pc = invoked[Len(invoked)] /\ error = NoError)
          /\ error # NoError => pc = "exit")
    /\ [][error # NoError => UNCHANGED vars]_vars

\* C9 witness: all six stages called
C9_Witness ==
    invoked = <<"login", "upload", "exists", "create", "start", "wait">>

\* C10: create_deployment is called only after deployment_exists returned
\* false with auto-create enabled; after it returned true create_deployment
\* is never called; after it returned false with auto-create disabled the
\* run ends with an error and neither create_deployment nor start_execution
\* is called.
C10_CreateOnlyWhenMissing ==
    /\ "create" \in Range(invoked) => (existed = "false" /\ create_if_missing)
    /\ existed = "true" => "create" \notin Range(invoked)
    /\ (existed = "false" /\ create_if_missing) => "create" \in Range(invoked)
    /\ (existed = "false" /\ ~create_if_missing)
           => /\ pc = "exit" /\ exit_code = ExitError
              /\ "create" \notin Range(invoked)
              /\ "start" \notin Range(invoked)

\* C10 witness: the deployment was missing, was created, and the run went on
C10_Witness ==
    /\ existed = "false"
    /\ "create" \in Range(invoked)
    /\ pc = "wait"

\* the whole pipeline ran: the execution was started and, as --wait is set,
\* seen terminated
PipelineCompleted ==
    /\ error = NoError
    /\ exec_id # ""
    /\ IF wait THEN invoked[Len(invoked)] = "wait" /\ st = "terminated"
               ELSE invoked[Len(invoked)] = "start"

\* C11: the process exits with 0 exactly when the whole pipeline completed,
\* with 1 when an error was reported and with 130 exactly when it was
\* interrupted; an interrupt during an attempt or a sleep ends the run at
\* once with 130: it starts no further attempt and no backoff sleep.
C11_ExitCodes ==
    /\ [](/\ pc = "exit" <=> exit_code # NoExit
          /\ pc = "exit" =>
               /\ exit_code \in {ExitOk, ExitError, ExitInterrupt}
               /\ exit_code = ExitOk <=> PipelineCompleted
               /\ exit_code = ExitInterrupt <=> error.kind = "KeyboardInterrupt"
               /\ exit_code = ExitError <=> error.kind \notin {"none", "KeyboardInterrupt"})
    /\ [][error'.kind = "KeyboardInterrupt" =>
             /\ pc' = "exit" /\ exit_code' = ExitInterrupt
             /\ attempt' = attempt /\ sleeps' = sleeps /\ polls' = polls]_vars

\* C11 witness: interrupted during a retried attempt of a status poll
C11_Witness ==
    /\ exit_code = ExitInterrupt
    /\ invoked # <<>>
    /\ invoked[Len(invoked)] = "wait"
    /\ attempt > 1
    /\ wait_sleeps > 0

\* C12: a 4xx response to an attempt of _request ends the call: it is the
\* last attempt, no backoff sleep follows it, and its status, text and body
\* are what the caller gets, whichever attempt it answered.
C12_ClientErrorReturnedAtOnce ==
    \A i \in 1..Len(trace) :
        (trace[i].kind = "response" /\ trace[i].status >= 400 /\ trace[i].status < 500)
            => /\ i = Len(trace)
               /\ attempt = i
               /\ Len(sleeps) = i - 1
               /\ pc = "returned"
               /\ ret = [kind |-> "returned", status |-> trace[i].status,
                         text |-> trace[i].text, exc |-> None]

\* C12 witness: a 404 answered the third attempt, after two transient failures
C12_Witness ==
    /\ Len(trace) = 3
    /\ trace[3].kind = "response" /\ trace[3].status = 404
    /\ pc = "returned"

\* the run of the scenario: 30 s timeout, 10 s interval, and so far every
\* request answered at once on its first attempt
ScenarioRun ==
    /\ exec_timeout_sec = ScenarioTimeout
    /\ poll_interval_sec = ScenarioInterval
    /\ attempt = 1
    /\ now = wait_sleeps * poll_interval_sec

\* C13: with a 30 s timeout, a 10 s interval and requests that take no time,
\* the polls at 0, 10 and 20 s do not time out and a poll at 30 s answered
\* "terminated" makes wait_execution return success, as its 4th poll; in
\* every run a "terminated" seen at exactly the deadline instant is a success
\* and no timeout.
C13_TerminatedAtDeadlineIsSuccess ==
    /\ (ScenarioRun /\ Classified /\ PollStatus(resp.text) = "terminated"
            /\ now = ScenarioTimeout)
           => (pc = "exit" /\ exit_code = ExitOk /\ error = NoError /\ polls = 4)
    /\ (ScenarioRun /\ error.kind = "Timeout") => now > ScenarioTimeout
    /\ (Classified /\ PollStatus(resp.text) = "terminated" /\ now = deadline)
           => (pc = "exit" /\ exit_code = ExitOk /\ error = NoError)

\* C13 witness: the scenario's 4th poll, at 30 s, was answered "terminated"
C13_Witness ==
    /\ ScenarioRun
    /\ now = ScenarioTimeout
    /\ polls = 4
    /\ resp = [stage |-> "wait", status |-> 200, text |-> BodyTerminated]
    /\ exit_code = ExitOk

\* run r has built its archive and has not finished uploading it
Uses(r) == runs[r].pc \in {"login", "upload"}

\* the step is run q's write (build), read (upload) or removal (cleanup) of
\* the file at its archive path
Touches(q) == runs[q].pc \in {"build", "upload", "cleanup"} /\ runs'[q] # runs[q]

\* C14: of two runs of main at the same time, whatever their blueprint ids,
\* neither writes, reads or removes the file at the other's archive path
\* while the other still uses it: a run that uses its archive finds its own
\* archive at the path and uploads nothing else.
C14_ArchiveExclusivelyOwned ==
    /\ [](\A r \in Runs : /\ Uses(r) => files[PathOf(r)] = r
                           /\ runs[r].uploaded \in {"none", r})
    /\ [][\A q, r \in Runs :
             (q # r /\ Touches(q) /\ Uses(r)) => PathOf(q) # PathOf(r)]_vars

\* the largest element of a non-empty set of numbers
Max(S) == CHOOSE m \in S : \A x \in S : x <= m

\* the input files merged one after the other in the given order
RECURSIVE MergedIn(_, _)
MergedIn(order, n) ==
    IF n = 0 THEN EmptyDict
    ELSE merge_dicts(MergedIn(order, n - 1), inputs_file[order[n]]).out

\* no key occurs in two of the input files
DisjointSources ==
    \A i, j \in 1..Len(inputs_file) :
        i # j => DOMAIN inputs_file[i] \cap DOMAIN inputs_file[j] = {}

\* C15: merged_inputs is the left-to-right shallow merge of the input files
\* read so far: a key has the value of the last file that contains it, a key
\* of no file is absent, the order of files with disjoint keys does not
\* matter, {a:1} then {a:2, b:3} gives {a:2, b:3}, and merge_dicts leaves
\* both of its arguments as they were.
C15_LastSourceWins ==
    /\ DOMAIN merged_inputs \subseteq InputKeys
    /\ \A k \in InputKeys :
          LET with == {i \in 1..loaded : k \in DOMAIN inputs_file[i]}
          IN  IF with = {} THEN k \notin DOMAIN merged_inputs
              ELSE /\ k \in DOMAIN merged_inputs
                   /\ merged_inputs[k] = inputs_file[Max(with)][k]
    /\ (pc = "merged" /\ DisjointSources)
          => \A order \in Permutations(1..Len(inputs_file)) :
                 MergedIn(order, Len(inputs_file)) = merged_inputs
    /\ (pc = "merged" /\ inputs_file = <<[a |-> 1], [a |-> 2, b |-> 3]>>)
          => merged_inputs = [a |-> 2, b |-> 3]
    /\ merge_args # <<>>
          => /\ merge_args.base = merge_args.base_in
             /\ merge_args.override = merge_args.override_in

\* C15 witness: {a:1} then {a:2, b:3} have been merged
C15_Witness ==
    /\ pc = "merged"
    /\ inputs_file = <<[a |-> 1], [a |-> 2, b |-> 3]>>
    /\ merged_inputs = [a |-> 2, b |-> 3]
    /\ merge_args.base_in = [a |-> 1]

\* C16: login_get_token is called once and its requests carry no
\* Authentication-Token header; every request of every later stage, retries
\* included, carries the header with the token that call returned; once
\* returned, the token is never replaced.
C16_OneTokenOnEveryLaterRequest ==
    /\ [](/\ \A p \in sent :
                IF p[1] = "login" THEN p[2] = None
                ELSE p[2] # None /\ p[2] # "" /\ p[2] = token
          /\ Cardinality({i \in 1..Len(invoked) : invoked[i] = "login"}) <= 1
          /\ pc \in Stages \ {"login"} => ~falsy(token))
    /\ [][token' # token => (pc = "login" /\ token = "" /\ pc' = "upload")]_vars

\* C16 witness: every stage has made a request, the status poll more than
\* one, and the poll in progress is at a retry
C16_Witness ==
    /\ {p[1] : p \in sent} = Stages
    /\ <<"wait", token>> \in sent
    /\ polls > 1
    /\ attempt > 1

\* C17: every iteration of wait_execution's loop makes one call of _request;
\* when the call hands back a status >= 400, wait_execution raises the
\* read-execution error in that iteration: the body's status string is not
\* read, nothing is slept, no further poll is made.
C17_ErrorStatusEndsPolling ==
    /\ [](/\ pc = "wait" => polls = wait_sleeps + 1
          /\ (resp.stage = "wait" /\ resp.status >= 400)
                => /\ pc = "exit" /\ exit_code = ExitError
                   /\ error = Err("ReadExecution", resp.status, resp.text, ""))
    /\ [][(resp'.stage = "wait" /\ resp'.status >= 400)
             => (st' = st /\ wait_sleeps' = wait_sleeps /\ polls' = polls
                    /\ now' <= now + MaxReqDur)]_vars

\* C17 witness: after a first poll, the 5th attempt of the second one was
\* answered 503 with a body that says "terminated"
C17_Witness ==
    /\ resp = [stage |-> "wait", status |-> 503, text |-> BodyTerminated]
    /\ polls = 2
    /\ error.kind = "ReadExecution"

TerminalStatuses == {"terminated", "failed", "cancelled"}

\* the step just taken was a poll whose status is none of the terminal ones
NonTerminalPoll == Classified /\ PollStatus(resp.text) \notin TerminalStatuses

\* such a poll is no success and no execution failure: the loop sleeps and
\* goes on, or the deadline has passed
NonTerminalGoesOn ==
    NonTerminalPoll
        => /\ exit_code # ExitOk
           /\ error.kind # "ExecutionFailed"
           /\ \/ pc = "wait" /\ st = PollStatus(resp.text)
              \/ pc = "exit" /\ error.kind = "Timeout" /\ now > deadline

\* the run ended inside wait_execution, and not by an interrupt
WaitEnded ==
    /\ pc = "exit"
    /\ invoked # <<>>
    /\ invoked[Len(invoked)] = "wait"
    /\ error.kind # "KeyboardInterrupt"

\* wait_execution ended by a terminal status, a status >= 400 or the deadline
EndedByStatusOrDeadline ==
    /\ resp.stage = "wait"
    /\ \/ resp.status >= 400 /\ error.kind = "ReadExecution"
       \/ Classified /\ PollStatus(resp.text) = "terminated" /\ exit_code = ExitOk
       \/ Classified /\ PollStatus(resp.text) \in {"failed", "cancelled"}
             /\ error.kind = "ExecutionFailed"
       \/ NonTerminalPoll /\ error.kind = "Timeout"

C19_EveryUploadAttemptSendsWholeArchive ==
    [][/\ (pc = "upload" /\ error'.kind # "KeyboardInterrupt") => fpos = open_rb
       /\ (pc = "upload" /\ pc' = "exists") => fpos = open_rb]_vars

\* C20: when the clock advances in every iteration and every attempt gets an
\* answer or a failure, a call of wait_execution ends, whatever the server
\* answers and even if the status stays non-terminal for ever: the number of
\* sleeps is bounded by the timeout and the interval.  It ends only after at
\* least one poll, even with exec_timeout_sec = 0.
C20_WaitTerminatesAfterAPoll ==
    /\ (pc = "wait") ~> (pc = "exit")
    /\ [](wait_sleeps > 0 => (wait_sleeps - 1) * poll_interval_sec <= exec_timeout_sec)
    /\ []((pc = "exit" /\ "wait" \in Range(invoked) /\ error.kind # "KeyboardInterrupt")
             => (polls >= 1 /\ <<"wait", token>> \in sent))

\* C20 witness: with exec_timeout_sec = 0 the first poll was made, answered
\* "pending", and wait_execution ended with the timeout error
C20_Witness ==
    /\ exec_timeout_sec = 0
    /\ pc = "exit"
    /\ error.kind = "Timeout"
    /\ polls = 1
    /\ resp = [stage |-> "wait", status |-> 200, text |-> BodyPending]

====
